---------------------------- MODULE Spec2Model ----------------------------
(***************************************************************************)
(* git-week: week boundaries (lib/dateUtils.js), the stargazer aggregation *)
(* (stars.js, in its two versions), the chart merge, and the contribution  *)
(* and activity reports (go.js, in its two versions).                      *)
(*                                                                         *)
(* Representation.                                                         *)
(*  - An instant (a JS Date) is a record [day, ms]: the number of whole    *)
(*    UTC days since 1970-01-01 and the milliseconds into that UTC day.    *)
(*    Date comparison (<, <=, getTime difference) is the lexicographic     *)
(*    order of (day, ms).                                                  *)
(*  - A "YYYY-MM-DD" text is represented by the day number of the calendar *)
(*    date it spells; for four-digit years the lexicographic order of the  *)
(*    texts is the numeric order of the day numbers.                       *)
(*  - A string handed to getMonday is a record of its parts: the text      *)
(*    before the first 'T' (a day number, and whether that text spells a   *)
(*    calendar date at all) and, when a 'T' is present, the local time of  *)
(*    day and the UTC offset (minutes east of UTC; "Z" is 0).              *)
(***************************************************************************)
EXTENDS Integers, Sequences, FiniteSets, TLC

VARIABLES
    pc,          \* which step of which script is next
    now,         \* the clock: what `new Date()` returns
    dateInput,   \* SpecDate: the pair of arguments handed to getMonday
    dateResult,  \* SpecDate: the pair of results
    stargazers,  \* SpecAgg: the event list handed to generateCumulativeData
    finalWeek,   \* the reference week (a Monday text) or NoValue
    impl,        \* which version of stars.js is running
    series,      \* SpecAgg: the object generateCumulativeData returned
    args,        \* SpecRun: process.argv: [repos, date]
    idx,         \* SpecRun: position of main's loop in repoStrings
    allData,     \* SpecRun: main's allData, in insertion order
    after,       \* SpecRun: fetchAllStargazers' cursor (0 is null)
    requests,    \* SpecRun: the GraphQL requests issued so far
    reported,    \* SpecRun: the console.error diagnostics so far
    fetchFailures, \* SpecRun: the repositories whose fetch failed
    output,      \* SpecRun: the files written
    exitStatus,  \* the process's exit status, once it ended
    responses,   \* SpecFetch: the answers fetchAllStargazers received so far
    tz,          \* SpecGo: the host's UTC offset in minutes (local = UTC + tz)
    query,       \* SpecGo: the variables of the contributions query, once issued
    report,      \* SpecGo: the contribution report written
    events,      \* SpecGo: the user events fetchUserEvents returned
    activity     \* SpecGo: the activity report written

dateVars == <<dateInput, dateResult>>
aggVars == <<series>>
runVars == <<args, idx, allData, after, requests, reported, fetchFailures, output, exitStatus>>
fetchVars == <<responses>>
goVars == <<tz, query, report, events, activity>>
vars == <<pc, now, stargazers, finalWeek, impl, dateVars, aggVars, runVars, fetchVars, goVars>>

-----------------------------------------------------------------------------
(* Bounds of the model *)

\* first day of the modelled window: 19709 = Monday 2023-12-18
FirstDay == 19709
\* number of consecutive days getMonday's inputs are drawn from
NumDays == 9
\* number of consecutive weeks events and reference weeks are drawn from
NumWeeks == 3
\* longest event list handed to generateCumulativeData
MaxStars == 3

-----------------------------------------------------------------------------
(* JS Date arithmetic *)

MsPerDay == 86400000
MsPerMinute == 60000
\* 1970-01-01 was a Thursday: getUTCDay() of day 0 is 4
EpochWeekday == 4

NoValue == "undefined"
\* what a call gives: a value, or the exception it threw
Returned(v) == [threw |-> FALSE, value |-> v]
RangeError == [threw |-> TRUE, value |-> 0]   \* "Invalid time value"
NotCalled == [threw |-> FALSE, value |-> 0]

\* an object whose keys are date texts: a function from day numbers
EmptyObject == [k \in {} |-> 0]

Instant(d, m) == [day |-> d, ms |-> m]
Midnight(d) == Instant(d, 0)

\* a < b on Dates
Before(a, b) == a.day < b.day \/ (a.day = b.day /\ a.ms < b.ms)
\* a <= b on Dates
NotAfter(a, b) == ~Before(b, a)

\* the instant one millisecond earlier
MinusOneMs(t) ==
    IF t.ms = 0 THEN Instant(t.day - 1, MsPerDay - 1) ELSE Instant(t.day, t.ms - 1)

\* getUTCDay(): 0 = Sunday .. 6 = Saturday
getUTCDay(d) == (d + EpochWeekday) % 7

\* new Date(<string>): the instant a well-formed string denotes
ParseDate(s) ==
    IF ~s.hasT THEN Midnight(s.date)
    ELSE LET local == s.ms - s.off * MsPerMinute
         IN  Instant(s.date + (local \div MsPerDay), local % MsPerDay)

\* the files of the output directory: nothing written yet
NotWritten == [written |-> FALSE, repos |-> <<>>]
NoCharts == [written |-> FALSE, labels |-> <<>>, series |-> <<>>, summary |-> <<>>]
NoOutput == [dir |-> FALSE, json |-> NotWritten, charts |-> NoCharts]

\* the variables a specification does not use keep these values
DateIdle ==
    /\ dateInput = <<NoValue, NoValue>>
    /\ dateResult = <<NotCalled, NotCalled>>
AggIdle == series = EmptyObject
RunIdle ==
    /\ args = [repos |-> <<>>, date |-> NoValue]
    /\ idx = 0
    /\ allData = <<>>
    /\ after = 0
    /\ requests = <<>>
    /\ reported = <<>>
    /\ fetchFailures = {}
    /\ output = NoOutput
    /\ exitStatus = NoValue
FetchIdle == responses = <<>>

\* go.js before its query is issued and before its files are written
NoQuery == [issued |-> FALSE, from |-> Midnight(0), to |-> Midnight(0)]
NoReport == [written |-> FALSE, year |-> 0, monday |-> 0]
NoActivity == [written |-> FALSE, commitsByRepo |-> <<>>, sections |-> <<>>]
GoIdle ==
    /\ tz = 0
    /\ query = NoQuery
    /\ report = NoReport
    /\ events = <<>>
    /\ activity = NoActivity

-----------------------------------------------------------------------------
(* lib/dateUtils.js *)

\* a Date object, as an argument
DateObject(t) ==
    [kind |-> "Date", t |-> t, valid |-> TRUE, date |-> 0, hasT |-> FALSE, ms |-> 0, off |-> 0]
\* a string, as an argument; valid: the text before the first 'T', followed by
\* "T00:00:00.000Z", is a date new Date() accepts
DateString(valid, d, hasT, m, o) ==
    [kind |-> "string", t |-> Midnight(0), valid |-> valid, date |-> d, hasT |-> hasT,
     ms |-> m, off |-> o]
\* a missing (or empty) argument
Undefined ==
    [kind |-> "undefined", t |-> Midnight(0), valid |-> FALSE, date |-> 0, hasT |-> FALSE,
     ms |-> 0, off |-> 0]

\* the date text formatDate returns: [valid, date]
formatDate(date) ==
    IF date.kind = "string"
    THEN [valid |-> date.valid, date |-> date.date]   \* date.split('T')[0]
    ELSE [valid |-> TRUE, date |-> date.t.day]        \* toISOString().split('T')[0]

\* dayOfWeek - 1 for every day, Sunday included: Sunday goes to the next Monday
MondayOfDaySundayForward(d) == d - (getUTCDay(d) - 1)

\* the Monday getMonday walks back to from a calendar date
MondayOfDay(d) ==
    LET dayOfWeek == getUTCDay(d)
        daysToSubtract == IF dayOfWeek = 0 THEN 6 ELSE dayOfWeek - 1
    IN  d - daysToSubtract

\* getMonday falling back to the current date for a text that is no date
getMondayLenient(dateStr) ==
    LET inputDateStr == IF dateStr.kind = "undefined" \/ ~dateStr.valid
                        THEN formatDate(DateObject(now))
                        ELSE formatDate(dateStr)
    IN  Returned(MondayOfDay(inputDateStr.date))

getMonday(dateStr) ==
    LET inputDateStr == IF dateStr.kind = "undefined"
                        THEN formatDate(DateObject(now))
                        ELSE formatDate(dateStr)
    IN  IF ~inputDateStr.valid
        THEN RangeError      \* Invalid Date: formatDate(monday) throws in toISOString()
        ELSE Returned(MondayOfDay(inputDateStr.date))

getNextMonday(mondayStr) == mondayStr + 7

-----------------------------------------------------------------------------
(* Inputs of getMonday *)

Days == FirstDay .. (FirstDay + NumDays - 1)
\* times of day: midnight, 01:00, 23:00, 23:59:59.999
TimesOfDay == {0, 3600000, 82800000, MsPerDay - 1}
\* UTC offsets in minutes: Z, +02:00, -02:00
Offsets == {0, 120, -120}

DateObjects == {DateObject(Instant(d, m)) : d \in Days, m \in TimesOfDay}
DateOnlyStrings == {DateString(TRUE, d, FALSE, 0, 0) : d \in Days}
TimestampStrings ==
    {DateString(TRUE, d, TRUE, m, o) : d \in Days, m \in TimesOfDay, o \in Offsets}
\* the text before the first 'T' spells no calendar date
MalformedStrings == {DateString(FALSE, 0, FALSE, 0, 0)}

WellFormedInputs == DateObjects \cup DateOnlyStrings \cup TimestampStrings
DateInputs == WellFormedInputs \cup MalformedStrings \cup {Undefined}

\* the instant an input denotes
InstantOf(x) ==
    IF x.kind = "Date" THEN x.t
    ELSE IF x.kind = "undefined" THEN now
    ELSE ParseDate(x)

-----------------------------------------------------------------------------
(* SpecDate: date.js -- getMonday applied to a pair of inputs *)

InitDate ==
    /\ pc = "date"
    /\ now = Instant(FirstDay + 2, 3600000)
    /\ dateInput \in DateInputs \X DateInputs
    /\ dateResult = <<NotCalled, NotCalled>>
    /\ stargazers = <<>>
    /\ finalWeek = NotCalled
    /\ impl = NoValue
    /\ AggIdle
    /\ RunIdle
    /\ FetchIdle
    /\ GoIdle

CallGetMonday ==
    /\ pc = "date"
    /\ dateResult' = <<getMonday(dateInput[1]), getMonday(dateInput[2])>>
    /\ pc' = "date-done"
    /\ UNCHANGED <<now, fetchVars, goVars, dateInput, stargazers, finalWeek, impl, aggVars, runVars>>

NextDate == CallGetMonday

SpecDate == InitDate /\ [][NextDate]_vars

-----------------------------------------------------------------------------
(* JS arrays and objects *)

Put(obj, k, v) == [x \in (DOMAIN obj) \cup {k} |-> IF x = k THEN v ELSE obj[x]]
\* obj[k] || 0
GetOrZero(obj, k) == IF k \in DOMAIN obj THEN obj[k] ELSE 0

SetMax(S) == CHOOSE x \in S : \A y \in S : y <= x
SetMin(S) == CHOOSE x \in S : \A y \in S : x <= y

\* Date.prototype.toString() starts with the weekday's name: the rank of that
\* name among "Fri" < "Mon" < "Sat" < "Sun" < "Thu" < "Tue" < "Wed"
WeekdayNameRank(dow) == <<3, 1, 5, 6, 4, 0, 2>>[dow + 1]

\* a < b on the texts String(a), String(b) ("Mon Dec 18 2023 00:00:00 GMT+0000"),
\* the host's zone being UTC: weekday name, then month name, day of month, year
\* and time, which within the modelled window (December 2023 - January 2024:
\* "Dec" < "Jan") is the order of the day number and the time of day
StringBefore(a, b) ==
    LET ra == WeekdayNameRank(getUTCDay(a.day))
        rb == WeekdayNameRank(getUTCDay(b.day))
    IN  ra < rb \/ (ra = rb /\ Before(a, b))

\* the comparator of a sort: (a, b) => a.getTime() - b.getTime(), or none
ByTime == "by getTime"
ByString == "by string form"
SortsBefore(order, a, b) == IF order = ByTime THEN Before(a, b) ELSE StringBefore(a, b)

\* Array.prototype.sort is stable: x goes behind every element it is not less than
RECURSIVE InsertSorted(_, _, _)
InsertSorted(sorted, x, order) ==
    IF sorted = <<>> THEN <<x>>
    ELSE IF SortsBefore(order, x, sorted[Len(sorted)])
         THEN Append(InsertSorted(SubSeq(sorted, 1, Len(sorted) - 1), x, order),
                     sorted[Len(sorted)])
         ELSE Append(sorted, x)

RECURSIVE SortFrom(_, _, _, _)
SortFrom(s, i, acc, order) ==
    IF i > Len(s) THEN acc ELSE SortFrom(s, i + 1, InsertSorted(acc, s[i], order), order)

\* .sort((a, b) => a.getTime() - b.getTime())
SortByTime(s) == SortFrom(s, 1, <<>>, ByTime)

\* .sort() without a comparator: by the elements' string forms
SortDefault(s) == SortFrom(s, 1, <<>>, ByString)

-----------------------------------------------------------------------------
(* stars.js: generateCumulativeData, in its two versions *)

\* the bound without getNextMonday: the Monday of the reference week itself
upperBoundThisMonday(week) == Midnight(week)

\* new Date(`${finalMonday}T00:00:00.000Z`) for finalMonday = getNextMonday(finalWeek)
upperBound(week) == Midnight(getNextMonday(week))

\* no filter at all
keepAllStargazers(list, bound) == list

\* the filter with <= in place of <
filterStargazersInclusive(list, bound) == SelectSeq(list, LAMBDA star : NotAfter(star, bound))

\* stargazers.filter(star => star < upperBound)
filterStargazers(list, bound) == SelectSeq(list, LAMBDA star : Before(star, bound))

\* src/stars.js: cumulative[starMonday] = i + 1 over the list sorted by time
RECURSIVE IndexLoop(_, _, _)
IndexLoop(filteredStargazers, i, cumulative) ==
    IF i > Len(filteredStargazers) THEN cumulative
    ELSE LET star == filteredStargazers[i]
             starMonday == getMonday(DateObject(star)).value
             cumulativeCount == i      \* i counts from 1 here, from 0 in the source
         IN  IndexLoop(filteredStargazers, i + 1, Put(cumulative, starMonday, cumulativeCount))

generateCumulativeData(list, week) ==
    IF Len(list) = 0 THEN EmptyObject
    ELSE LET filteredStargazers == SortByTime(filterStargazers(list, upperBound(week)))
         IN  IF Len(filteredStargazers) = 0 THEN EmptyObject
             ELSE IndexLoop(filteredStargazers, 1, EmptyObject)

\* the other version: cumulative[starMonday] = (cumulative[starMonday] || 0) + 1
RECURSIVE IncrementLoop(_, _, _)
IncrementLoop(filteredStargazers, i, cumulative) ==
    IF i > Len(filteredStargazers) THEN cumulative
    ELSE LET star == filteredStargazers[i]
             starMonday == getMonday(DateObject(star)).value
             existingCount == GetOrZero(cumulative, starMonday)
         IN  IncrementLoop(filteredStargazers, i + 1, Put(cumulative, starMonday, existingCount + 1))

generateCumulativeDataCharts(list, week) ==
    IF Len(list) = 0 THEN EmptyObject
    ELSE LET filteredStargazers == SortDefault(filterStargazers(list, upperBound(week)))
         IN  IF Len(filteredStargazers) = 0 THEN EmptyObject
             ELSE IncrementLoop(filteredStargazers, 1, EmptyObject)

\* the two versions of the script
StarsJs == "stars.js"
StarsChartsJs == "stars.js with charts"

Aggregate(version, list, week) ==
    IF version = StarsJs THEN generateCumulativeData(list, week)
    ELSE generateCumulativeDataCharts(list, week)

-----------------------------------------------------------------------------
(* Inputs of generateCumulativeData *)

\* the first Monday of the modelled weeks
BaseMonday == MondayOfDay(FirstDay)
\* the reference weeks: Mondays, as main's getMonday(args[2]) gives them
ReferenceWeeks == {BaseMonday + 7 * k : k \in 0 .. (NumWeeks - 1)}
\* the last reference week
LastWeek == BaseMonday + 7 * (NumWeeks - 1)
\* starredAt instants: each Monday 00:00:00.000Z, the millisecond before it, and
\* a Wednesday noon; one week beyond the last reference week included
StarInstants ==
    {Midnight(BaseMonday + 7 * k) : k \in 0 .. NumWeeks}
    \cup {MinusOneMs(Midnight(BaseMonday + 7 * k)) : k \in 1 .. NumWeeks}
    \cup {Instant(BaseMonday + 7 * k + 2, MsPerDay \div 2) : k \in 0 .. (NumWeeks - 1)}

RECURSIVE SeqsUpTo(_, _)
SeqsUpTo(S, n) ==
    IF n = 0 THEN {<<>>}
    ELSE LET shorter == SeqsUpTo(S, n - 1)
         IN  shorter \cup {Append(s, x) : s \in shorter, x \in S}

-----------------------------------------------------------------------------
(* SpecAgg: generateCumulativeData applied to an event list *)

InitAgg ==
    /\ pc = "agg"
    /\ now = Instant(FirstDay + 2, 3600000)
    /\ DateIdle
    /\ stargazers \in SeqsUpTo(StarInstants, MaxStars)
    /\ finalWeek \in {Returned(w) : w \in ReferenceWeeks}
    /\ impl = NoValue
    /\ series = EmptyObject
    /\ RunIdle
    /\ FetchIdle
    /\ GoIdle

CallGenerateCumulativeData(version) ==
    /\ pc = "agg"
    /\ impl' = version
    /\ series' = Aggregate(version, stargazers, finalWeek.value)
    /\ pc' = "agg-done"
    /\ UNCHANGED <<now, fetchVars, goVars, stargazers, finalWeek, dateVars, runVars>>

CallStarsJs == CallGenerateCumulativeData(StarsJs)
CallStarsChartsJs == CallGenerateCumulativeData(StarsChartsJs)

NextAgg == CallStarsJs \/ CallStarsChartsJs

SpecAgg == InitAgg /\ [][NextAgg]_vars


-----------------------------------------------------------------------------
(* stars.js: parseRepoString, fetchAllStargazers, generateChartsMarkdown *)

\* a repository string is the sequence of its parts between '/' characters
\* repoString.split('/'): parts.length !== 2 throws
parseRepoString(repoString) ==
    IF Len(repoString) # 2
    THEN [threw |-> TRUE, owner |-> "", name |-> ""]
    ELSE [threw |-> FALSE, owner |-> repoString[1], name |-> repoString[2]]

\* `${owner}/${name}`
RepoName(parsed) == <<parsed.owner, parsed.name>>

batchSize == 100

\* the request without its cursor
RequestWithoutCursor(parsed, cursor) ==
    [owner |-> parsed.owner, name |-> parsed.name, first |-> batchSize, after |-> 0]

\* the variables of one stargazersQuery request: `after` is left out when falsy
Request(parsed, cursor) ==
    [owner |-> parsed.owner, name |-> parsed.name, first |-> batchSize, after |-> cursor]

\* an edge of a page: starredAt, or an edge without it
Edge(t) == [hasStarredAt |-> TRUE, starredAt |-> t]
EdgeWithoutDate == [hasStarredAt |-> FALSE, starredAt |-> Midnight(0)]

\* for (const edge of edges) if (edge.starredAt) stargazers.push(new Date(edge.starredAt))
RECURSIVE PushEdges(_, _, _)
PushEdges(list, edges, i) ==
    IF i > Len(edges) THEN list
    ELSE PushEdges(IF edges[i].hasStarredAt THEN Append(list, edges[i].starredAt) ELSE list,
                   edges, i + 1)

\* allData[repoName] = {...}: a new key goes last, an old key keeps its place
PositionOf(data, repoName) ==
    IF \E i \in 1 .. Len(data) : data[i].name = repoName
    THEN CHOOSE i \in 1 .. Len(data) : data[i].name = repoName
    ELSE 0
\* the entry put in front instead
PutRepoFirst(data, repoName, cumulative) ==
    <<[name |-> repoName, cumulative |-> cumulative]>> \o data
PutRepo(data, repoName, cumulative) ==
    LET entry == [name |-> repoName, cumulative |-> cumulative]
        at == PositionOf(data, repoName)
    IN  IF at = 0 THEN Append(data, entry) ELSE [data EXCEPT ![at] = entry]

\* generateChartsMarkdown: the dates of all repositories
AllDates(data) == UNION {DOMAIN data[i].cumulative : i \in 1 .. Len(data)}

\* while (current <= endDate) { allMondays.push(formatDate(current)); current += 7 days }
\* begin and end are undefined when there is no date: the Dates are invalid, the
\* comparison is false and the loop body never runs
\* the loop with < in place of <=
RECURSIVE MondaysLoopExclusive(_, _, _)
MondaysLoopExclusive(current, endDate, allMondays) ==
    IF ~(current < endDate) THEN allMondays
    ELSE MondaysLoopExclusive(current + 7, endDate,
                              Append(allMondays, formatDate(DateObject(Midnight(current))).date))

RECURSIVE MondaysLoop(_, _, _)
MondaysLoop(current, endDate, allMondays) ==
    IF ~(current <= endDate) THEN allMondays
    ELSE MondaysLoop(current + 7, endDate,
                     Append(allMondays, formatDate(DateObject(Midnight(current))).date))

AllMondays(data) ==
    LET allDates == AllDates(data)
    IN  IF allDates = {} THEN <<>>
        ELSE MondaysLoop(SetMin(allDates), SetMax(allDates), <<>>)

\* for (const date of allMondays) { prev = prev + (cumulative[date] || 0); data.push(prev) }
RECURSIVE ChartData(_, _, _, _)
ChartData(cumulative, allMondays, i, data) ==
    IF i > Len(allMondays) THEN data
    ELSE LET prev == IF i = 1 THEN 0 ELSE data[i - 1]
             add == GetOrZero(cumulative, allMondays[i])
         IN  ChartData(cumulative, allMondays, i + 1, Append(data, prev + add))

\* a date of the summary: undefined for a repository without dates
SomeDate(d) == [defined |-> TRUE, date |-> d]
NoDate == [defined |-> FALSE, date |-> 0]

generateChartsMarkdown(data) ==
    LET allMondays == AllMondays(data)
        column(i) == ChartData(data[i].cumulative, allMondays, 1, <<>>)
        total(i) == IF allMondays = <<>> THEN 0 ELSE column(i)[Len(allMondays)]
        dates(i) == DOMAIN data[i].cumulative
    IN  [written |-> TRUE,
         labels |-> allMondays,
         series |-> [i \in 1 .. Len(data) |-> [title |-> data[i].name, data |-> column(i)]],
         summary |-> [i \in 1 .. Len(data) |->
                        [name |-> data[i].name,
                         total |-> total(i),
                         points |-> Cardinality(dates(i)),
                         firstDate |-> IF dates(i) = {} THEN NoDate
                                       ELSE SomeDate(SetMin(dates(i))),
                         latestDate |-> IF dates(i) = {} THEN NoDate
                                        ELSE SomeDate(SetMax(dates(i)))]]]

-----------------------------------------------------------------------------
(* SpecRun: one run of stars.js, in either version *)

\* longest repository list
MaxRepos == 2
\* most pages the upstream serves for one repository
MaxPages == 2

RepoStrings == {<<"ebullient", "a">>, <<"ebullient", "b">>, <<"no-slash">>}
RepoLists == SeqsUpTo(RepoStrings, MaxRepos) \ {<<>>}

\* the date argument: none (the current week, the first reference week), a date
\* of the last reference week, a text that is no date, a date followed by 'T'
\* and text that is no time (a time of day out of range stands for it)
JunkTailStrings == {DateString(TRUE, LastWeek + 3, TRUE, MsPerDay, 0)}
DateArgs ==
    {Undefined, DateString(TRUE, LastWeek + 2, FALSE, 0, 0)}
    \cup MalformedStrings
    \cup JunkTailStrings

\* the pages the upstream serves: an empty page; a page of an edge in the first
\* reference week and an edge without starredAt; a page of an edge at the Monday
\* 00:00:00.000Z that ends the last reference week followed by an (earlier)
\* edge in the last reference week
Pages ==
    {<<>>,
     <<Edge(Instant(BaseMonday + 2, MsPerDay \div 2)), EdgeWithoutDate>>,
     <<Edge(Midnight(LastWeek + 7)), Edge(Instant(LastWeek + 2, MsPerDay \div 2))>>}
\* a page that announces a next page holds edges
PagesWithNext == Pages \ {<<>>}

InitRun ==
    /\ pc = "main"
    /\ now = Instant(FirstDay + 2, 3600000)
    /\ DateIdle
    /\ AggIdle
    /\ stargazers = <<>>
    /\ finalWeek = NotCalled
    /\ impl \in {StarsJs, StarsChartsJs}
    /\ args \in [repos : RepoLists, date : DateArgs]
    /\ idx = 0
    /\ allData = <<>>
    /\ after = 0
    /\ requests = <<>>
    /\ reported = <<>>
    /\ fetchFailures = {}
    /\ output = NoOutput
    /\ exitStatus = NoValue
    /\ FetchIdle
    /\ GoIdle

\* main up to its loop: getMonday(args[2]) throws uncaught, or the output
\* directory is made and the loop starts
MainStart ==
    /\ pc = "main"
    /\ LET week == getMonday(args.date)
       IN  IF week.threw
           THEN /\ pc' = "exited"
                /\ exitStatus' = "1"
                /\ UNCHANGED <<finalWeek, idx, output>>
           ELSE /\ finalWeek' = week
                /\ output' = [output EXCEPT !.dir = TRUE]
                /\ idx' = 1
                /\ pc' = "loop"
                /\ UNCHANGED exitStatus
    /\ UNCHANGED <<now, fetchVars, goVars, stargazers, impl, dateVars, aggVars, args, allData, after, requests,
                   reported, fetchFailures>>

\* the loop's next repository: parseRepoString throws into main's catch, or
\* fetchAllStargazers starts
BeginRepo ==
    /\ pc = "loop"
    /\ idx <= Len(args.repos)
    /\ LET parsed == parseRepoString(args.repos[idx])
       IN  IF parsed.threw
           THEN /\ reported' = Append(reported, [what |-> "Error processing repository",
                                                repo |-> args.repos[idx]])
                /\ idx' = idx + 1
                /\ UNCHANGED <<pc, stargazers, after>>
           ELSE /\ stargazers' = <<>>
                /\ after' = 0
                /\ pc' = "fetch"
                /\ UNCHANGED <<reported, idx>>
    /\ UNCHANGED <<now, fetchVars, goVars, finalWeek, impl, dateVars, aggVars, args, allData, requests,
                   fetchFailures, output, exitStatus>>

\* the repository being fetched
Current == parseRepoString(args.repos[idx])

\* the rest of the loop body once fetchAllStargazers has returned `list`
FinishRepo(list) ==
    /\ allData' = PutRepo(allData, RepoName(Current), Aggregate(impl, list, finalWeek.value))
    /\ stargazers' = list     \* the loop body's stargazers, until the next iteration
    /\ idx' = idx + 1
    /\ pc' = "loop"

\* runGraphQL: gh exits non-zero, or answers with errors, or with text that is
\* no JSON: process.exit(1)
RunGraphQLFails ==
    /\ pc = "fetch"
    /\ requests' = Append(requests, Request(Current, after))
    /\ fetchFailures' = fetchFailures \cup {RepoName(Current)}
    /\ reported' = Append(reported, [what |-> "GraphQL query failed",
                                    repo |-> args.repos[idx]])
    /\ pc' = "exited"
    /\ exitStatus' = "1"
    /\ UNCHANGED <<now, fetchVars, goVars, stargazers, finalWeek, impl, dateVars, aggVars, args, idx, allData,
                   after, output>>

\* the answer holds no data.repository.stargazers: the loop breaks and
\* fetchAllStargazers returns what it has
ResponseWithoutStargazers ==
    /\ pc = "fetch"
    /\ requests' = Append(requests, Request(Current, after))
    /\ fetchFailures' = fetchFailures \cup {RepoName(Current)}
    /\ reported' = Append(reported, [what |-> "Failed to fetch stargazers",
                                    repo |-> args.repos[idx]])
    /\ FinishRepo(stargazers)
    /\ UNCHANGED <<now, fetchVars, goVars, finalWeek, impl, dateVars, aggVars, args, after, output, exitStatus>>

\* a page with hasNextPage: its edges are pushed, the cursor moves on
ResponseWithNextPage ==
    /\ pc = "fetch"
    /\ after < MaxPages - 1
    /\ \E edges \in PagesWithNext :
         stargazers' = PushEdges(stargazers, edges, 1)
    /\ requests' = Append(requests, Request(Current, after))
    /\ after' = after + 1
    /\ UNCHANGED <<pc, now, fetchVars, goVars, finalWeek, impl, dateVars, aggVars, args, idx, allData, reported,
                   fetchFailures, output, exitStatus>>

\* a page without hasNextPage: its edges are pushed and fetchAllStargazers returns
ResponseLastPage ==
    /\ pc = "fetch"
    /\ \E edges \in Pages :
         FinishRepo(PushEdges(stargazers, edges, 1))
    /\ requests' = Append(requests, Request(Current, after))
    /\ after' = after + 1
    /\ UNCHANGED <<now, fetchVars, goVars, finalWeek, impl, dateVars, aggVars, args, reported, fetchFailures,
                   output, exitStatus>>

\* after the loop: stargazers.json is written, and in the version with charts
\* stargazers.md
WriteOutput ==
    /\ pc = "loop"
    /\ idx > Len(args.repos)
    /\ output' = [output EXCEPT
                    !.json = [written |-> TRUE, repos |-> allData],
                    !.charts = IF impl = StarsChartsJs
                               THEN generateChartsMarkdown(allData)
                               ELSE @]
    /\ pc' = "done"
    /\ exitStatus' = "0"
    /\ UNCHANGED <<now, fetchVars, goVars, stargazers, finalWeek, impl, dateVars, aggVars, args, idx, allData,
                   after, requests, reported, fetchFailures>>

NextRun ==
    \/ MainStart
    \/ BeginRepo
    \/ RunGraphQLFails
    \/ ResponseWithoutStargazers
    \/ ResponseWithNextPage
    \/ ResponseLastPage
    \/ WriteOutput

SpecRun == InitRun /\ [][NextRun]_vars

-----------------------------------------------------------------------------
(* SpecFetch: one call of fetchAllStargazers, with the answers it received *)

\* number of distinct cursors the upstream hands out
NumCursors == 3
\* pageInfo.endCursor: an opaque text, null (0) on an empty page
Cursors == 1 .. NumCursors

\* an answer with stargazer data, and one without data.repository.stargazers
PageResponse(edges, hasNextPage, endCursor) ==
    [hasData |-> TRUE, edges |-> edges, hasNextPage |-> hasNextPage, endCursor |-> endCursor]
ResponseWithoutData ==
    [hasData |-> FALSE, edges |-> <<>>, hasNextPage |-> FALSE, endCursor |-> 0]

InitFetch ==
    /\ pc = "fetching"
    /\ now = Instant(FirstDay + 2, 3600000)
    /\ DateIdle
    /\ AggIdle
    /\ GoIdle
    /\ stargazers = <<>>
    /\ finalWeek = NotCalled
    /\ impl = StarsJs
    /\ args \in [repos : {<<r>> : r \in {q \in RepoStrings : ~parseRepoString(q).threw}},
                 date : {Undefined}]
    /\ idx = 1
    /\ allData = <<>>
    /\ after = 0
    /\ requests = <<>>
    /\ responses = <<>>
    /\ reported = <<>>
    /\ fetchFailures = {}
    /\ output = NoOutput
    /\ exitStatus = NoValue

\* runGraphQL ends the process
FetchRunGraphQLFails ==
    /\ pc = "fetching"
    /\ requests' = Append(requests, Request(Current, after))
    /\ pc' = "exited"
    /\ exitStatus' = "1"
    /\ UNCHANGED <<now, stargazers, finalWeek, impl, dateVars, aggVars, goVars, args, idx,
                   allData, after, responses, reported, fetchFailures, output>>

\* the answer holds no data.repository.stargazers: break, and return the list
FetchWithoutStargazers ==
    /\ pc = "fetching"
    /\ requests' = Append(requests, Request(Current, after))
    /\ responses' = Append(responses, ResponseWithoutData)
    /\ reported' = Append(reported, [what |-> "Failed to fetch stargazers",
                                    repo |-> args.repos[idx]])
    /\ pc' = "fetched"
    /\ UNCHANGED <<now, stargazers, finalWeek, impl, dateVars, aggVars, goVars, args, idx,
                   allData, after, fetchFailures, output, exitStatus>>

\* a page with hasNextPage: its edges are pushed, after becomes its endCursor
FetchPageWithNext ==
    /\ pc = "fetching"
    /\ Len(responses) < MaxPages - 1
    /\ \E edges \in PagesWithNext, endCursor \in Cursors :
         /\ responses' = Append(responses, PageResponse(edges, TRUE, endCursor))
         /\ stargazers' = PushEdges(stargazers, edges, 1)
         /\ after' = endCursor
    /\ requests' = Append(requests, Request(Current, after))
    /\ UNCHANGED <<pc, now, finalWeek, impl, dateVars, aggVars, goVars, args, idx, allData,
                   reported, fetchFailures, output, exitStatus>>

\* a page without hasNextPage: its edges are pushed, the loop ends, the list is
\* returned
FetchLastPage ==
    /\ pc = "fetching"
    /\ \E edges \in Pages, c \in Cursors :
         LET endCursor == IF edges = <<>> THEN 0 ELSE c
         IN  /\ responses' = Append(responses, PageResponse(edges, FALSE, endCursor))
             /\ stargazers' = PushEdges(stargazers, edges, 1)
             /\ after' = endCursor
    /\ requests' = Append(requests, Request(Current, after))
    /\ pc' = "fetched"
    /\ UNCHANGED <<now, finalWeek, impl, dateVars, aggVars, goVars, args, idx, allData,
                   reported, fetchFailures, output, exitStatus>>

NextFetch ==
    \/ FetchRunGraphQLFails
    \/ FetchWithoutStargazers
    \/ FetchPageWithNext
    \/ FetchLastPage

\* spawnSync blocks until gh has answered, and the loop then takes its next
\* step: a call that can go on does go on
SpecFetch == InitFetch /\ [][NextFetch]_vars /\ WF_vars(NextFetch)

-----------------------------------------------------------------------------
(* SpecMerge: generateChartsMarkdown applied to the data of a finished loop *)

\* starredAt of the events behind the merged series: a Wednesday noon of each week
MergeInstants == {Instant(BaseMonday + 7 * k + 2, MsPerDay \div 2) : k \in 0 .. (NumWeeks - 1)}
\* the series main stores for a repository: what generateCumulativeData (of the
\* version that has the merge) returns for some event list
StoredSeries ==
    {generateCumulativeDataCharts(list, LastWeek) : list \in SeqsUpTo(MergeInstants, MaxStars)}
\* repository names, distinct as the keys of allData are
MergeNames == <<"a", "b", "c", "d">>
\* allData holding the series f[1], .., f[n] under n names
AllDataOf(f, n) ==
    [i \in 1 .. n |-> [name |-> <<"ebullient", MergeNames[i]>>, cumulative |-> f[i]]]

InitMerge ==
    /\ pc = "merge"
    /\ now = Instant(FirstDay + 2, 3600000)
    /\ DateIdle
    /\ AggIdle
    /\ stargazers = <<>>
    /\ finalWeek = Returned(LastWeek)
    /\ impl = StarsChartsJs
    /\ args = [repos |-> <<>>, date |-> NoValue]
    /\ idx = 0
    /\ \E n \in 0 .. MaxRepos : \E f \in [1 .. n -> StoredSeries] : allData = AllDataOf(f, n)
    /\ after = 0
    /\ requests = <<>>
    /\ reported = <<>>
    /\ fetchFailures = {}
    /\ output = [NoOutput EXCEPT !.dir = TRUE, !.json = [written |-> TRUE, repos |-> allData]]
    /\ exitStatus = NoValue
    /\ FetchIdle
    /\ GoIdle

CallGenerateChartsMarkdown ==
    /\ pc = "merge"
    /\ output' = [output EXCEPT !.charts = generateChartsMarkdown(allData)]
    /\ pc' = "merge-done"
    /\ exitStatus' = "0"
    /\ UNCHANGED <<now, fetchVars, goVars, stargazers, finalWeek, impl, dateVars, aggVars, args, idx, allData,
                   after, requests, reported, fetchFailures>>

NextMerge == CallGenerateChartsMarkdown

SpecMerge == InitMerge /\ [][NextMerge]_vars

-----------------------------------------------------------------------------
(* go.js: main and generateActivityMarkdown *)

\* the two versions of the script: the one that also writes the activity
\* report (its third argument is the activity directory, its fourth the date)
\* and the one that writes the contribution report only (its third argument is
\* the date)
GoJs == "go.js"
GoReportJs == "go.js without activity"

\* an argument that is a user name or a directory: read as a date, no date
SomeText == DateString(FALSE, 0, FALSE, 0, 0)
\* args[k] of process.argv.slice(2): undefined beyond the end
ArgAt(argv, k) == IF k < Len(argv) THEN argv[k + 1] ELSE Undefined
\* const dateArg = args[3] (args[2] in the version without activity)
dateArg(version, argv) == IF version = GoJs THEN ArgAt(argv, 3) ELSE ArgAt(argv, 2)
\* const activityDir = args[2]
activityDir(argv) == ArgAt(argv, 2)

\* 2024-01-01
FirstDayOf2024 == 19723
\* the calendar year of a day of 2023 or 2024
YearOfDay(d) == IF d < FirstDayOf2024 THEN 2023 ELSE 2024
\* Date.prototype.getFullYear(): the year of the date in the host's zone
getFullYear(t, offset) ==
    LET local == t.ms + offset * MsPerMinute
    IN  YearOfDay(t.day + (local \div MsPerDay))

\* a user event: its head commit is named after its place in the answer
PushEvent == "PushEvent"
EventTypes == {PushEvent, "WatchEvent"}
Event(type, t, repo, sha) == [type |-> type, created_at |-> t, repo |-> repo, sha |-> sha]
\* repository names, in alphabetical order
GoRepos == <<"ebullient/a", "ebullient/b">>

\* the test with the end of the week included
OutsideWeekEndIncluded(eventDate, weekStart, weekEnd) ==
    Before(eventDate, weekStart) \/ Before(weekEnd, eventDate)

\* eventDate < weekStart || eventDate >= weekEnd
OutsideWeek(eventDate, weekStart, weekEnd) ==
    Before(eventDate, weekStart) \/ NotAfter(weekEnd, eventDate)

\* for (const event of events): push events of the week, grouped by repository
RECURSIVE GroupLoop(_, _, _, _, _)
GroupLoop(evs, i, weekStart, weekEnd, commitsByRepo) ==
    IF i > Len(evs) THEN commitsByRepo
    ELSE LET event == evs[i]
             eventDate == event.created_at
             repoName == event.repo
             had == IF repoName \in DOMAIN commitsByRepo THEN commitsByRepo[repoName] ELSE <<>>
         IN  IF event.type # PushEvent \/ OutsideWeek(eventDate, weekStart, weekEnd)
             THEN GroupLoop(evs, i + 1, weekStart, weekEnd, commitsByRepo)
             ELSE GroupLoop(evs, i + 1, weekStart, weekEnd,
                            Put(commitsByRepo, repoName, Append(had, event.sha)))

\* Array.from(commitsByRepo.keys()).sort()
SortedRepos(commitsByRepo) == SelectSeq(GoRepos, LAMBDA r : r \in DOMAIN commitsByRepo)

\* the sections of the activity report: a heading for each repository and a
\* line for each of its commits that fetchCommit could get
Sections(commitsByRepo, unavailable) ==
    LET sortedRepos == SortedRepos(commitsByRepo)
    IN  [k \in 1 .. Len(sortedRepos) |->
            [repo |-> sortedRepos[k],
             lines |-> SelectSeq(commitsByRepo[sortedRepos[k]],
                                 LAMBDA sha : sha \notin unavailable)]]

generateActivityMarkdown(evs, unavailable, weekStart, weekEnd) ==
    LET commitsByRepo == GroupLoop(evs, 1, weekStart, weekEnd, EmptyObject)
    IN  [written |-> TRUE,
         commitsByRepo |-> commitsByRepo,
         sections |-> Sections(commitsByRepo, unavailable)]

-----------------------------------------------------------------------------
(* SpecGo: one run of go.js, in either version *)

\* longest answer of fetchUserEvents
MaxEvents == 2

\* the date arguments: a Wednesday of each reference week
GoDates == {DateString(TRUE, w + 2, FALSE, 0, 0) : w \in ReferenceWeeks}
\* the command lines: too short; user and output directory; those and a date;
\* those and a directory; those, a directory and a date
GoArgLists ==
    {<<SomeText>>, <<SomeText, SomeText>>, <<SomeText, SomeText, SomeText>>}
    \cup {<<SomeText, SomeText, d>> : d \in GoDates}
    \cup {<<SomeText, SomeText, SomeText, d>> : d \in GoDates}

\* created_at of the events: around both ends of the week, and inside it
EventInstants(week) ==
    {MinusOneMs(Midnight(week)), Midnight(week), Instant(week + 2, MsPerDay \div 2),
     MinusOneMs(Midnight(week + 7)), Midnight(week + 7)}
EventShapes(week) ==
    {[type |-> ty, t |-> t, repo |-> GoRepos[r]] :
        ty \in EventTypes, t \in EventInstants(week), r \in 1 .. Len(GoRepos)}
UserEventLists(week) ==
    {[i \in 1 .. Len(s) |-> Event(s[i].type, s[i].t, s[i].repo, i)] :
        s \in SeqsUpTo(EventShapes(week), MaxEvents)}

InitGo ==
    /\ pc = "go"
    /\ now = Instant(FirstDay + 2, 3600000)
    /\ DateIdle
    /\ AggIdle
    /\ FetchIdle
    /\ stargazers = <<>>
    /\ finalWeek = NotCalled
    /\ impl \in {GoJs, GoReportJs}
    /\ args \in GoArgLists
    /\ idx = 0
    /\ allData = <<>>
    /\ after = 0
    /\ requests = <<>>
    /\ reported = <<>>
    /\ fetchFailures = {}
    /\ output = NoOutput
    /\ exitStatus = NoValue
    /\ tz \in Offsets
    /\ query = NoQuery
    /\ report = NoReport
    /\ events = <<>>
    /\ activity = NoActivity

\* main up to runGraphQL: the usage check, getMonday(dateArg) (which throws
\* uncaught on a text that is no date), the week's ends and the query
GoStart ==
    /\ pc = "go"
    /\ LET weekStartStr == getMonday(dateArg(impl, args))
       IN  IF Len(args) < 2 \/ weekStartStr.threw
           THEN /\ pc' = "exited"
                /\ exitStatus' = "1"
                /\ UNCHANGED <<finalWeek, query>>
           ELSE /\ finalWeek' = weekStartStr
                /\ query' = [issued |-> TRUE,
                             from |-> Midnight(weekStartStr.value),
                             to |-> Midnight(getNextMonday(weekStartStr.value))]
                /\ pc' = "query"
                /\ UNCHANGED exitStatus
    /\ UNCHANGED <<now, stargazers, impl, dateVars, aggVars, fetchVars, args, idx, allData,
                   after, requests, reported, fetchFailures, output, tz, report, events,
                   activity>>

\* runGraphQL fails (process.exit(1)), or the answer holds no data.user
GoQueryFails ==
    /\ pc = "query"
    /\ pc' = "exited"
    /\ exitStatus' = "1"
    /\ UNCHANGED <<now, stargazers, finalWeek, impl, dateVars, aggVars, fetchVars, args, idx,
                   allData, after, requests, reported, fetchFailures, output, goVars>>

\* the contributions arrive: the report is written under the year of weekStart;
\* the version without activity is done, the other joins the activity path
\* (join(undefined, ..) throws uncaught) and goes on to fetch the events
GoWriteReport ==
    /\ pc = "query"
    /\ LET weekStart == Midnight(finalWeek.value)
           year == getFullYear(weekStart, tz)
       IN  report' = [written |-> TRUE, year |-> year, monday |-> finalWeek.value]
    /\ IF impl = GoReportJs
       THEN pc' = "done" /\ exitStatus' = "0"
       ELSE IF activityDir(args).kind = "undefined"
            THEN pc' = "exited" /\ exitStatus' = "1"
            ELSE pc' = "events" /\ UNCHANGED exitStatus
    /\ UNCHANGED <<now, stargazers, finalWeek, impl, dateVars, aggVars, fetchVars, args, idx,
                   allData, after, requests, reported, fetchFailures, output, tz, query,
                   events, activity>>

\* fetchUserEvents fails: process.exit(1)
GoEventsFail ==
    /\ pc = "events"
    /\ pc' = "exited"
    /\ exitStatus' = "1"
    /\ UNCHANGED <<now, stargazers, finalWeek, impl, dateVars, aggVars, fetchVars, args, idx,
                   allData, after, requests, reported, fetchFailures, output, goVars>>

\* the events arrive: generateActivityMarkdown groups them, asks for each commit
\* (fetchCommit returns null for a commit it cannot get) and writes the file
GoWriteActivity ==
    /\ pc = "events"
    /\ \E evs \in UserEventLists(finalWeek.value), unavailable \in {{}, {1}} :
         /\ events' = evs
         /\ activity' = generateActivityMarkdown(evs, unavailable,
                                                 Midnight(finalWeek.value),
                                                 Midnight(getNextMonday(finalWeek.value)))
    /\ pc' = "done"
    /\ exitStatus' = "0"
    /\ UNCHANGED <<now, stargazers, finalWeek, impl, dateVars, aggVars, fetchVars, args, idx,
                   allData, after, requests, reported, fetchFailures, output, tz, query,
                   report>>

NextGo ==
    \/ GoStart
    \/ GoQueryFails
    \/ GoWriteReport
    \/ GoEventsFail
    \/ GoWriteActivity

SpecGo == InitGo /\ [][NextGo]_vars

-----------------------------------------------------------------------------
(* Properties of getMonday (SpecDate) *)

DateDone == pc = "date-done"

\* C8: for every well-formed date input d, getMonday(d) is a Monday (UTC), is
\* not later than d, and is less than 7 days before d.
C8_MondayNotLaterWithinSevenDays ==
    (DateDone /\ dateInput[1] \in WellFormedInputs) =>
        LET r == dateResult[1]
            d == InstantOf(dateInput[1])
        IN  /\ ~r.threw
            /\ getUTCDay(r.value) = 1
            /\ NotAfter(Midnight(r.value), d)
            /\ Before(d, Midnight(r.value + 7))

\* C9: getMonday depends only on the UTC calendar date of its input: two
\* well-formed inputs (Date object, date-only string, timestamp string with Z
\* or with an offset) denoting instants on the same UTC calendar date give the
\* same WeekKey.
C9_SameUtcDateSameWeekKey ==
    (/\ DateDone
     /\ dateInput[1] \in WellFormedInputs
     /\ dateInput[2] \in WellFormedInputs
     /\ InstantOf(dateInput[1]).day = InstantOf(dateInput[2]).day)
        => dateResult[1] = dateResult[2]

-----------------------------------------------------------------------------
(* Properties of generateCumulativeData (SpecAgg) *)

AggDone == pc = "agg-done"

\* the positions of the events before the upper bound of the reference week
CountedPositions ==
    {i \in 1 .. Len(stargazers) : Before(stargazers[i], Midnight(finalWeek.value + 7))}

\* C1: if generateCumulativeData returns a non-empty series, the value at its
\* latest WeekKey is the number of input events strictly before upperBound.
C1_LatestValueIsCountBeforeBound ==
    (AggDone /\ DOMAIN series # {}) =>
        series[SetMax(DOMAIN series)] = Cardinality(CountedPositions)

\* the positions of the events an entry of the series counts: stars.js stores
\* the running total up to and including the entry's week, the version with
\* charts the number of events of the entry's own week
EntryPositions(version, key) ==
    {i \in CountedPositions :
        LET starMonday == getMonday(DateObject(stargazers[i])).value
        IN  IF version = StarsJs THEN starMonday <= key ELSE starMonday = key}

\* C5: an event at upperBound is counted in no entry of the series (the series
\* is the one the list without such events gives, and upperBound's own week has
\* no entry); an event at upperBound - 1 ms is counted in the entry of the
\* reference week (that entry exists, and every entry's value is the number of
\* events it counts, this one among them for the reference week).
C5_HalfOpenAtUpperBound ==
    AggDone =>
        LET week == finalWeek.value
            bound == Midnight(week + 7)
        IN  /\ series = Aggregate(impl, SelectSeq(stargazers, LAMBDA e : e # bound), week)
            /\ bound.day \notin DOMAIN series
            /\ \A key \in DOMAIN series :
                 /\ series[key] = Cardinality(EntryPositions(impl, key))
                 /\ \A i \in EntryPositions(impl, key) : stargazers[i] # bound
            /\ \A i \in 1 .. Len(stargazers) :
                 stargazers[i] = MinusOneMs(bound) =>
                    /\ week \in DOMAIN series
                    /\ i \in EntryPositions(impl, week)

\* C5 witness: the list holds an event at upperBound, one at upperBound - 1 ms,
\* and the series has been computed.
C5_Witness ==
    /\ AggDone
    /\ \E i, j \in 1 .. Len(stargazers) :
         /\ stargazers[i] = Midnight(finalWeek.value + 7)
         /\ stargazers[j] = MinusOneMs(Midnight(finalWeek.value + 7))
    /\ finalWeek.value \in DOMAIN series

\* C6: the values of the returned series are non-decreasing in ascending
\* WeekKey order.
C6_ValuesNonDecreasing ==
    AggDone =>
        \A k1, k2 \in DOMAIN series : k1 < k2 => series[k1] <= series[k2]

\* C7: the key set of the returned series is exactly the set of Mondays of the
\* events before upperBound.
C7_KeysAreWeeksOfCountedEvents ==
    AggDone =>
        DOMAIN series =
            {getMonday(DateObject(stargazers[i])).value : i \in CountedPositions}

\* C7 witness: two populated weeks with an empty week between them, and an
\* event that the upper bound leaves out.
C7_Witness ==
    /\ AggDone
    /\ BaseMonday \in DOMAIN series
    /\ BaseMonday + 7 \notin DOMAIN series
    /\ BaseMonday + 14 \in DOMAIN series
    /\ CountedPositions # 1 .. Len(stargazers)


\* the version of generateCumulativeData that was not called
OtherVersion(version) == IF version = StarsJs THEN StarsChartsJs ELSE StarsJs
\* no two events of the list have the same timestamp
DistinctTimestamps ==
    \A i, j \in 1 .. Len(stargazers) : i # j => stargazers[i] # stargazers[j]

\* C15: for an event list with pairwise distinct timestamps and any reference
\* week, the version of generateCumulativeData that adds one per event to its
\* week's entry and the version that stores the position after the sort return
\* the same series.
C15_VersionsReturnSameSeries ==
    (AggDone /\ DistinctTimestamps) =>
        series = Aggregate(OtherVersion(impl), stargazers, finalWeek.value)

\* the WeekKey of an event
WeekKeyOf(e) == getMonday(DateObject(e)).value
\* the positions of the events whose WeekKey is `week`, or not later than it
PositionsInWeek(week) == {i \in 1 .. Len(stargazers) : WeekKeyOf(stargazers[i]) = week}
PositionsUpToWeek(week) == {i \in 1 .. Len(stargazers) : WeekKeyOf(stargazers[i]) <= week}
\* what an entry holds when exactly the events of `counted` are counted:
\* stars.js stores the running total, the version with charts the week's count
EntryValue(version, counted, key) ==
    Cardinality({i \in counted :
                    IF version = StarsJs THEN WeekKeyOf(stargazers[i]) <= key
                    ELSE WeekKeyOf(stargazers[i]) = key})

\* C16: the filter by timestamp agrees with the bucketing by week. For the
\* reference week W the series is the one that counts exactly the events e with
\* getMonday(e) <= W, so it has no WeekKey later than W; and the series for the
\* reference week W + 7 days has the same entries for the weeks <= W, and an
\* entry for W + 7 days exactly if some event has that WeekKey, which counts
\* those events in addition.
C16_FilterAgreesWithBuckets ==
    AggDone =>
        LET W == finalWeek.value
            counted == PositionsUpToWeek(W)
            next == Aggregate(impl, stargazers, W + 7)
        IN  /\ DOMAIN series = {WeekKeyOf(stargazers[i]) : i \in counted}
            /\ \A key \in DOMAIN series :
                 /\ key <= W
                 /\ series[key] = EntryValue(impl, counted, key)
            /\ \A key \in DOMAIN series : key \in DOMAIN next /\ next[key] = series[key]
            /\ DOMAIN next \ DOMAIN series = {w \in {W + 7} : PositionsInWeek(w) # {}}
            /\ \A key \in DOMAIN next \ DOMAIN series :
                 next[key] = EntryValue(impl, counted \cup PositionsInWeek(W + 7), key)

\* C16 witness: the series is computed for a list with an event in a week
\* before the reference week, one in the reference week and one in the week
\* after it.
C16_Witness ==
    /\ AggDone
    /\ PositionsInWeek(finalWeek.value - 7) # {}
    /\ PositionsInWeek(finalWeek.value) # {}
    /\ PositionsInWeek(finalWeek.value + 7) # {}
    /\ finalWeek.value \in DOMAIN series

-----------------------------------------------------------------------------
(* Properties of a run and of the merge (SpecRun, SpecMerge) *)

RunDone == pc = "done"
\* generateChartsMarkdown has returned: in a run, or applied on its own
ChartsDone == (pc = "done" /\ impl = StarsChartsJs) \/ pc = "merge-done"

\* the WeekKeys of all series handed to the merge
UnionOfWeekKeys == UNION {DOMAIN allData[i].cumulative : i \in 1 .. Len(allData)}

\* the value a series stores at its latest WeekKey that is <= week, 0 without one
LatestStoredValue(cumulative, week) ==
    LET own == {k \in DOMAIN cumulative : k <= week}
    IN  IF own = {} THEN 0 ELSE cumulative[SetMax(own)]

\* C2: the merge's column of a resource at each week of the shared axis is the
\* resource's stored value at its latest own WeekKey <= that week (0 without
\* one), and its total is the last value recorded in its own series.
C2_ColumnIsLatestStoredValue ==
    ChartsDone =>
        \A i \in 1 .. Len(allData) :
            LET cumulative == allData[i].cumulative
                labels == output.charts.labels
                column == output.charts.series[i].data
            IN  /\ \A k \in 1 .. Len(labels) :
                     column[k] = LatestStoredValue(cumulative, labels[k])
                /\ output.charts.summary[i].total =
                     (IF DOMAIN cumulative = {} THEN 0
                      ELSE cumulative[SetMax(DOMAIN cumulative)])

\* the names of the repositories written to stargazers.json
WrittenNames == {output.json.repos[i].name : i \in 1 .. Len(output.json.repos)}
\* the well-formed repositories of the input list
ListedNames == {<<r[1], r[2]>> : r \in {args.repos[i] : i \in 1 .. Len(args.repos)} \cap
                                        {q \in RepoStrings : Len(q) = 2}}

\* C3: a fetch failure for one repository never aborts the run: the repository
\* is reported and left out of the output, and every other repository of the
\* list is still fetched, aggregated and written.
C3_FetchFailureIsIsolated ==
    /\ fetchFailures # {} => pc # "exited"
    /\ RunDone =>
         /\ output.json.written
         /\ WrittenNames = ListedNames \ fetchFailures
         /\ \A name \in fetchFailures : \E i \in 1 .. Len(reported) :
                <<reported[i].repo[1], reported[i].repo[2]>> = name

\* the date argument is no date at all / the text before its first 'T' is none
Unparseable(date) ==
    date.kind = "string" /\ (~date.valid \/ (date.hasT /\ date.ms \notin 0 .. (MsPerDay - 1)))
NoDateBeforeT(date) == date.kind = "string" /\ ~date.valid
\* the repository string is not of the form owner/repo
NotOwnerSlashRepo(repoString) == Len(repoString) # 2

AbortedBeforeAnyFetch ==
    /\ pc = "main" \/ (pc = "exited" /\ exitStatus = "1")
    /\ requests = <<>>
    /\ output = NoOutput

C10_AxisIsContiguousMondays ==
    ChartsDone =>
        LET labels == output.charts.labels
        IN  /\ output.charts.written
            /\ exitStatus = "0"
            /\ IF UnionOfWeekKeys = {} THEN labels = <<>>
               ELSE /\ Len(labels) >= 1
                    /\ labels[1] = SetMin(UnionOfWeekKeys)
                    /\ labels[Len(labels)] = SetMax(UnionOfWeekKeys)
                    /\ \A k \in 1 .. Len(labels) : getUTCDay(labels[k]) = 1
                    /\ \A k \in 1 .. (Len(labels) - 1) : labels[k + 1] = labels[k] + 7

\* C10 witness: the merge has run over series whose union skips a week, so the
\* axis holds a week that is in no series.
C10_Witness ==
    /\ ChartsDone
    /\ \E k \in 1 .. Len(output.charts.labels) :
         output.charts.labels[k] \notin UnionOfWeekKeys

\* a list without its i-th element
RemoveAt(s, i) == [k \in 1 .. (Len(s) - 1) |-> IF k < i THEN s[k] ELSE s[k + 1]]

\* the loop has just finished the repository before idx (fetched and stored it)
JustFinished ==
    /\ pc \in {"loop", "done"}
    /\ idx > 1
    /\ ~parseRepoString(args.repos[idx - 1]).threw

\* C11: a repository whose fetched list holds no event before upperBound (no
\* event at all, or only later ones) gets the empty series, without error; it
\* is written to stargazers.json, and in the merge it has its own column, all
\* zero, and total 0, while the shared axis is the one the merge computes for
\* the data without that repository.
C11_EmptyRepositoryIsZeroColumn ==
    /\ JustFinished =>
         LET at == PositionOf(allData, RepoName(parseRepoString(args.repos[idx - 1])))
         IN  /\ at > 0
             /\ (\A i \in 1 .. Len(stargazers) :
                    ~Before(stargazers[i], Midnight(finalWeek.value + 7)))
                  => allData[at].cumulative = EmptyObject
    /\ RunDone =>
         /\ exitStatus = "0"
         /\ output.json = [written |-> TRUE, repos |-> allData]
         /\ \A i \in 1 .. Len(allData) :
              (impl = StarsChartsJs /\ allData[i].cumulative = EmptyObject) =>
                 LET charts == output.charts
                 IN  /\ charts.written
                     /\ charts.series[i].title = allData[i].name
                     /\ Len(charts.series[i].data) = Len(charts.labels)
                     /\ \A k \in 1 .. Len(charts.labels) : charts.series[i].data[k] = 0
                     /\ charts.summary[i].name = allData[i].name
                     /\ charts.summary[i].total = 0
                     /\ charts.labels = generateChartsMarkdown(RemoveAt(allData, i)).labels

\* C11 witness: a run with charts has ended; its last repository was fetched
\* with events, all of them at or after upperBound, and has the empty series,
\* while another repository has entries, so the shared axis is not empty.
C11_Witness ==
    /\ RunDone
    /\ impl = StarsChartsJs
    /\ JustFinished
    /\ stargazers # <<>>
    /\ Len(allData) = 2
    /\ allData[2].name = RepoName(parseRepoString(args.repos[idx - 1]))
    /\ allData[2].cumulative = EmptyObject
    /\ allData[1].cumulative # EmptyObject
    /\ output.charts.labels # <<>>

\* the repository strings of the input list are pairwise distinct
DistinctRepos == \A i, j \in 1 .. Len(args.repos) : i # j => args.repos[i] # args.repos[j]
\* the position of a repository name (`${owner}/${name}`) in the input list
InputPosition(repoName) ==
    IF \E i \in 1 .. Len(args.repos) : args.repos[i] = repoName
    THEN CHOOSE i \in 1 .. Len(args.repos) : args.repos[i] = repoName
    ELSE 0
\* the well-formed repository strings of the input list, in input order
ListedInOrder == SelectSeq(args.repos, LAMBDA r : ~parseRepoString(r).threw)
NamesOf(entries) == [i \in 1 .. Len(entries) |-> entries[i].name]
TitlesOf(entries) == [i \in 1 .. Len(entries) |-> entries[i].title]
RequestedName(request) == <<request.owner, request.name>>

\* C12: for an input list of distinct repositories, the requests are issued
\* repository by repository in input order (never for a repository before the
\* one of an earlier request, never beyond the loop's position, and while a
\* repository is fetched every stored series belongs to an earlier one), the
\* stored series are in input order, and a run that ends writes the array of
\* stargazers.json, the chart series and the summary in the order of the input
\* list, whichever repositories were reported as failed.
C12_OutputInInputOrder ==
    DistinctRepos =>
        /\ \A j \in 1 .. Len(requests) :
             /\ InputPosition(RequestedName(requests[j])) >= 1
             /\ InputPosition(RequestedName(requests[j])) <= idx
             /\ \A k \in 1 .. Len(requests) :
                  j < k => InputPosition(RequestedName(requests[j]))
                              <= InputPosition(RequestedName(requests[k]))
        /\ \A i \in 1 .. Len(allData) :
             /\ InputPosition(allData[i].name) >= 1
             /\ InputPosition(allData[i].name) < idx
             /\ \A k \in 1 .. Len(allData) :
                  i < k => InputPosition(allData[i].name) < InputPosition(allData[k].name)
        /\ RunDone =>
             /\ output.json.written
             /\ NamesOf(output.json.repos) = ListedInOrder
             /\ impl = StarsChartsJs =>
                  /\ TitlesOf(output.charts.series) = ListedInOrder
                  /\ NamesOf(output.charts.summary) = ListedInOrder

\* C12 witness: a run with charts over the list b, a has ended with both
\* repositories written, one of them reported as failed.
C12_Witness ==
    /\ RunDone
    /\ impl = StarsChartsJs
    /\ args.repos = <<<<"ebullient", "b">>, <<"ebullient", "a">>>>
    /\ fetchFailures = {<<"ebullient", "b">>}
    /\ Len(output.json.repos) = 2
    /\ Len(requests) > 2

-----------------------------------------------------------------------------
(* Properties of go.js (SpecGo) *)

\* the week of a date: [its Monday 00:00:00.000Z, the next Monday 00:00:00.000Z)
WindowOfDay(d) ==
    [issued |-> TRUE, from |-> Midnight(MondayOfDay(d)), to |-> Midnight(MondayOfDay(d) + 7)]

\* C13: invoked as go <username> <output_dir> <date>, the script queries the
\* contributions of the window [Monday of the week containing <date>, following
\* Monday); invoked without a third argument it queries the current week.
C13_WindowIsWeekOfThirdArgument ==
    query.issued =>
        /\ (Len(args) = 3 /\ args[3].valid) => query = WindowOfDay(args[3].date)
        /\ Len(args) = 2 => query = WindowOfDay(now.day)

\* the date the run was asked for: the date argument the script reads, today
\* without one
RequestedDay ==
    LET arg == dateArg(impl, args)
    IN  IF arg.kind = "undefined" THEN now.day ELSE arg.date

\* C14: the contribution report is written to <output_dir>/<year>/<monday>_gh.md
\* where <monday> is the UTC Monday of the requested week and <year> is the
\* calendar year of that Monday's date, whatever the host's UTC offset.
C14_ReportPathIsYearOfMonday ==
    report.written =>
        /\ report.monday = MondayOfDay(RequestedDay)
        /\ report.year = YearOfDay(report.monday)

\* the commits grouped under a repository
GroupedUnder(repoName) ==
    IF repoName \in DOMAIN activity.commitsByRepo
    THEN {activity.commitsByRepo[repoName][k] :
            k \in 1 .. Len(activity.commitsByRepo[repoName])}
    ELSE {}

\* C18: once the activity report is written, an event is grouped under a
\* repository exactly if that is the event's repository, the event is a
\* PushEvent and weekStart <= created_at < weekEnd, weekStart being the Monday
\* 00:00:00.000Z main computed and weekEnd the Monday 7 days later: an event at
\* weekStart is in, an event at weekEnd is out, an event of another type is out.
C18_PushEventsOfTheWeekAreGrouped ==
    activity.written =>
        LET weekStart == Midnight(finalWeek.value)
            weekEnd == Midnight(finalWeek.value + 7)
        IN  /\ getUTCDay(finalWeek.value) = 1
            /\ DOMAIN activity.commitsByRepo \subseteq {GoRepos[r] : r \in 1 .. Len(GoRepos)}
            /\ \A i \in 1 .. Len(events) : \A r \in 1 .. Len(GoRepos) :
                 events[i].sha \in GroupedUnder(GoRepos[r])
                    <=> /\ events[i].repo = GoRepos[r]
                        /\ events[i].type = PushEvent
                        /\ NotAfter(weekStart, events[i].created_at)
                        /\ Before(events[i].created_at, weekEnd)

\* C18 witness: the activity report is written for an answer holding a
\* PushEvent at weekStart, which is grouped, and a PushEvent at weekEnd, which
\* is not.
C18_Witness ==
    /\ activity.written
    /\ \E i, j \in 1 .. Len(events) :
         /\ events[i].type = PushEvent
         /\ events[i].created_at = Midnight(finalWeek.value)
         /\ events[i].sha \in GroupedUnder(events[i].repo)
         /\ events[j].type = PushEvent
         /\ events[j].created_at = Midnight(finalWeek.value + 7)
         /\ events[j].sha \notin GroupedUnder(events[j].repo)

-----------------------------------------------------------------------------
(* Properties of fetchAllStargazers (SpecFetch) *)

\* the starredAt timestamps of the edges of a page, in order
TimestampsOf(edges) ==
    LET dated == SelectSeq(edges, LAMBDA edge : edge.hasStarredAt)
    IN  [k \in 1 .. Len(dated) |-> dated[k].starredAt]
\* those of the first n answers, in page order
RECURSIVE TimestampsOfPages(_, _)
TimestampsOfPages(pages, n) ==
    IF n = 0 THEN <<>>
    ELSE TimestampsOfPages(pages, n - 1) \o TimestampsOf(pages[n].edges)

\* the answer ends the loop: no next page, or no stargazer data
EndsFetch(response) == ~response.hasData \/ ~response.hasNextPage

\* requests and answers alternate, every request after the first carries the
\* endCursor of the answer before it, a request follows only an answer with a
\* next page, and the list holds the timestamps of the answers so far
FetchInSequence ==
    /\ Len(requests) = Len(responses) + (IF pc = "exited" THEN 1 ELSE 0)
    /\ \A j \in 1 .. Len(requests) :
         /\ requests[j].owner = Current.owner
         /\ requests[j].name = Current.name
         /\ requests[j].after = (IF j = 1 THEN 0 ELSE responses[j - 1].endCursor)
         /\ j > 1 => ~EndsFetch(responses[j - 1])
    /\ stargazers = TimestampsOfPages(responses, Len(responses))
    /\ pc = "fetched" => EndsFetch(responses[Len(responses)])
    /\ (pc = "fetching" /\ responses # <<>>) => ~EndsFetch(responses[Len(responses)])

\* C17: fetchAllStargazers requests the pages strictly in sequence, each
\* request after the first carrying the endCursor of the page before it; it
\* stops at the first page without a next page (or the first answer without
\* stargazer data) and requests nothing after it; it returns the starredAt
\* timestamps of all edges of the pages received, in page order; and, the
\* upstream reporting no next page sooner or later, the call comes to an end.
C17_PagesInSequenceUntilLast ==
    /\ []FetchInSequence
    /\ [][pc # "fetching" => UNCHANGED <<requests, responses, stargazers>>]_vars
    /\ <>(pc # "fetching")

\* C17 witness: the call has returned after two pages, the second requested
\* with the first one's endCursor, with a list holding timestamps of both.
C17_Witness ==
    /\ pc = "fetched"
    /\ Len(responses) = 2
    /\ responses[1].hasNextPage
    /\ requests[2].after = responses[1].endCursor
    /\ requests[2].after # 0
    /\ Len(stargazers) = 2

=============================================================================
